---- MODULE Spec2Model ----
(***************************************************************************)
(* Model of clipboard_ai:                                                  *)
(*   core/ai_interface.py  AIInterface (set_config, send_to_ai, adapters)  *)
(*   ui/main_window.py     AIWorker.run, MainWindow.send_to_ai and slots,  *)
(*                         load_configs, captures and deletions            *)
(*   ui/config_dialog.py   ConfigDialog (load, add new, save, delete)      *)
(*   core/database_manager.py  the configs and clips tables                *)
(* Python strings are sequences of tokens, so that formatting and parsing  *)
(* are computed rather than assumed.                                       *)
(***************************************************************************)
EXTENDS Integers, Sequences, FiniteSets, TLC

\* ---------------------------------------------------------------- bounds
MaxWorkers == 2
MaxTime == 4          \* the clock is followed up to this many ticks
MaxClipId == 5        \* clips are captured until clips.id reaches this
MaxConfigId == 2      \* configurations are added until configs.id reaches this

Workers == 1..MaxWorkers

\* ------------------------------------------------------- Python values
Str(s) == [py |-> "str", s |-> s]
NoneVal == [py |-> "NoneType", s |-> <<>>]
IsStr(v) == v.py = "str"

DigitChars == <<"0", "1", "2", "3", "4", "5", "6", "7", "8", "9">>

RECURSIVE Dec(_)
\* str(int) / f"{int}" for a non-negative integer
Dec(n) == IF n < 10 THEN <<DigitChars[n + 1]>>
          ELSE Dec(n \div 10) \o <<DigitChars[(n % 10) + 1]>>

\* needle occurs in hay as a contiguous run of tokens
Contains(hay, needle) ==
    \E i \in 1..(Len(hay) + 1) :
        /\ i + Len(needle) - 1 <= Len(hay)
        /\ \A k \in 1..Len(needle) : hay[i + k - 1] = needle[k]

PROMPT_IMAGE == "PROMPT_IMAGE"
PROMPT_TEXT == "PROMPT_TEXT"

\* an exception object; str(e) is its message
Exc(cls, msg) == [cls |-> cls, msg |-> msg]
StrOfExc(e) == Str(e.msg)

\* ------------------------------------------------------ JSON (json.loads)
Tok(t, v) == [t |-> t, v |-> v]
LBRACE == Tok("{", "")
RBRACE == Tok("}", "")
LBRACK == Tok("[", "")
RBRACK == Tok("]", "")
COLON == Tok(":", "")
COMMA == Tok(",", "")
JNULL == Tok("null", "")
JSTR(v) == Tok("string", v)
JUNK(v) == Tok("junk", v)

JsonError == [py |-> "JSONDecodeError", s |-> <<>>, d |-> <<>>]
JsonDict(d) == [py |-> "dict", s |-> <<>>, d |-> d]
JsonList == [py |-> "list", s |-> <<>>, d |-> <<>>]
JsonScalar(v) == [py |-> v.py, s |-> v.s, d |-> <<>>]

\* the str spelled by one token; the empty token spells ''
StrOf(tok) == Str(IF tok = "" THEN <<>> ELSE <<tok>>)

IsJsonValueTok(tk) == tk.t \in {"string", "null"}
JsonValueOf(tk) == IF tk.t = "string" THEN StrOf(tk.v) ELSE NoneVal

\* d with key k bound to v (a later duplicate key wins, as in json.loads)
DictPut(d, k, v) ==
    IF \E i \in 1..Len(d) : d[i].k = k
    THEN [i \in 1..Len(d) |-> IF d[i].k = k THEN [k |-> k, v |-> v] ELSE d[i]]
    ELSE Append(d, [k |-> k, v |-> v])
DictHas(d, k) == \E i \in 1..Len(d) : d[i].k = k
DictGet(d, k) == d[CHOOSE i \in 1..Len(d) : d[i].k = k].v

RECURSIVE ParseMembers(_, _, _)
\* toks[i..] is   "key" : value ( , "key" : value )* }   up to the end
ParseMembers(toks, i, acc) ==
    IF i + 3 > Len(toks) THEN JsonError
    ELSE IF ~(toks[i].t = "string" /\ toks[i + 1] = COLON
              /\ IsJsonValueTok(toks[i + 2])) THEN JsonError
    ELSE LET acc2 == DictPut(acc, toks[i].v, JsonValueOf(toks[i + 2]))
         IN IF toks[i + 3] = RBRACE
            THEN (IF i + 3 = Len(toks) THEN JsonDict(acc2) ELSE JsonError)
            ELSE IF toks[i + 3] = COMMA THEN ParseMembers(toks, i + 4, acc2)
            ELSE JsonError

json_loads(toks) ==
    IF Len(toks) = 0 THEN JsonError
    ELSE IF toks[1] = LBRACE
    THEN (IF Len(toks) = 2 /\ toks[2] = RBRACE THEN JsonDict(<<>>)
          ELSE ParseMembers(toks, 2, <<>>))
    ELSE IF toks[1] = LBRACK
    THEN (IF Len(toks) = 2 /\ toks[2] = RBRACK THEN JsonList ELSE JsonError)
    ELSE IF Len(toks) = 1 /\ IsJsonValueTok(toks[1])
    THEN JsonScalar(JsonValueOf(toks[1]))
    ELSE JsonError

\* ------------------------------------------------ base64.b64encode
B64Alphabet == <<
    "A", "B", "C", "D", "E", "F", "G", "H", "I", "J", "K", "L", "M", "N", "O", "P",
    "Q", "R", "S", "T", "U", "V", "W", "X", "Y", "Z", "a", "b", "c", "d", "e", "f",
    "g", "h", "i", "j", "k", "l", "m", "n", "o", "p", "q", "r", "s", "t", "u", "v",
    "w", "x", "y", "z", "0", "1", "2", "3", "4", "5", "6", "7", "8", "9", "+", "/" >>

B64Char(i) == B64Alphabet[i + 1]

RECURSIVE b64encode(_)
b64encode(b) ==
    IF Len(b) = 0 THEN <<>>
    ELSE IF Len(b) = 1
    THEN <<B64Char(b[1] \div 4), B64Char((b[1] % 4) * 16), "=", "=">>
    ELSE IF Len(b) = 2
    THEN <<B64Char(b[1] \div 4), B64Char((b[1] % 4) * 16 + (b[2] \div 16)),
           B64Char((b[2] % 16) * 4), "=">>
    ELSE <<B64Char(b[1] \div 4), B64Char((b[1] % 4) * 16 + (b[2] \div 16)),
           B64Char((b[2] % 16) * 4 + (b[3] \div 64)), B64Char(b[3] % 64)>>
         \o b64encode(SubSeq(b, 4, Len(b)))

\* PIL: convert("P", colors=256) then save(format='PNG'): the PNG signature
\* followed by the palette-indexed pixel data
PngSignature == <<137, 80, 78, 71>>
PalettePng(pixels) == PngSignature \o pixels

\* ------------------------------------------------- configuration records
NoConfig == [id |-> 0, name |-> "", type |-> "", api_key |-> "", model |-> "",
             other_settings |-> JsonScalar(NoneVal)]

\* the dict MainWindow.load_configs builds from one row of the configs table
ConfigDict(id, name, type, api_key, model, other_settings) ==
    [id |-> id, name |-> name, type |-> type, api_key |-> api_key,
     model |-> model, other_settings |-> other_settings]

\* other_settings as saved by ConfigDialog.save_config and parsed back:
\* '{}' (a str) for openai, {'api_url': url} for ollama
OpenAISettings == JsonScalar(Str(<<"{}">>))
OllamaSettings(url) == JsonDict(<<[k |-> "api_url", v |-> StrOf(url)]>>)

CfgA == ConfigDict(1, "cloud", "openai", "sk-A", "gpt-4o", OpenAISettings)
CfgB == ConfigDict(2, "local", "ollama", "", "llava", OllamaSettings("http://ai-box:11434"))
CfgX == ConfigDict(3, "other", "azure", "key-X", "phi", OpenAISettings)

\* ---- the way of other_settings from the dialog to the dispatcher
\* ConfigDialog.save_config lines 154-162
OtherSettingsFor(config_type, api_url) ==
    IF config_type = "openai" THEN JsonScalar(Str(<<"{}">>))
    ELSE JsonDict(<<[k |-> "api_url", v |-> StrOf(api_url)]>>)

\* Python truth value of a str or dict
Truthy(v) == IF v.py = "dict" THEN v.d # <<>> ELSE v.s # <<>>

\* the token of a one-token str
TokOf(v) == IF v.s = <<>> THEN "" ELSE v.s[1]

RECURSIVE DumpMembers(_)
DumpMembers(d) ==
    IF d = <<>> THEN <<>>
    ELSE <<JSTR(d[1].k), COLON, JSTR(TokOf(d[1].v))>>
         \o (IF Len(d) > 1 THEN <<COMMA>> ELSE <<>>) \o DumpMembers(Tail(d))

\* json.dumps of a str or of a dict of str
json_dumps(v) ==
    IF v.py = "dict" THEN <<LBRACE>> \o DumpMembers(v.d) \o <<RBRACE>>
    ELSE <<JSTR(TokOf(v))>>

\* a value of the TEXT column configs.other_settings: NULL or a text
SqlNull == [null |-> TRUE, text |-> <<>>]
SqlText(toks) == [null |-> FALSE, text |-> toks]

\* DatabaseManager.add_config / update_config:
\* `json.dumps(other_settings) if other_settings else None`
OtherSettingsJson(other_settings) ==
    IF Truthy(other_settings) THEN SqlText(json_dumps(other_settings)) ELSE SqlNull

\* a row of the configs table
ConfigRow(id, name, type, api_key, model, other_settings) ==
    [id |-> id, name |-> name, type |-> type, api_key |-> api_key,
     model |-> model, other_settings |-> OtherSettingsJson(other_settings)]

\* MainWindow.load_configs lines 240-243: json.loads, {} on JSONDecodeError
\* (a NULL column makes json.loads raise TypeError, which is not caught)
ParsedOtherSettings(col) ==
    LET r == json_loads(col.text) IN
    IF r.py = "JSONDecodeError" THEN JsonDict(<<>>) ELSE r

\* MainWindow.load_configs lines 245-252: the item data made from a row
ConfigOfRow(row) ==
    ConfigDict(row.id, row.name, row.type, row.api_key, row.model,
               ParsedOtherSettings(row.other_settings))

\* the rows behind CfgA and CfgB, as the dialog saves them
RowA == ConfigRow(1, "cloud", "openai", "sk-A", "gpt-4o", OtherSettingsFor("openai", ""))
RowB == ConfigRow(2, "local", "ollama", "", "llava",
                  OtherSettingsFor("ollama", "http://ai-box:11434"))

\* local-server rows: saved through the dialog with an API URL (RowB), saved
\* with the field left blank, and added with settings that hold no api_url
RowBlank == ConfigRow(4, "blank", "ollama", "", "llava", OtherSettingsFor("ollama", ""))
RowNoUrl == ConfigRow(5, "plain", "ollama", "", "llava",
                      JsonDict(<<[k |-> "temperature", v |-> StrOf("0.2")]>>))
OllamaRows == {RowB, RowBlank, RowNoUrl}
CfgBlank == ConfigOfRow(RowBlank)
CfgNoUrl == ConfigOfRow(RowNoUrl)
OllamaConfigs == {ConfigOfRow(row) : row \in OllamaRows}

\* configs tables the application may start with
InitialConfigTables == { <<>>, <<RowA, RowB>> }

\* MainWindow.load_configs: the item data of model_selector for a table
LoadedItems(rows) == [i \in 1..Len(rows) |-> ConfigOfRow(rows[i])]

\* model_selector contents the application may start with
StoredConfigLists == { LoadedItems(rows) : rows \in InitialConfigTables }

\* ConfigDialog after __init__: nothing selected, the form empty
InitialDialog ==
    [current_config_id |-> 0,       \* 0: None
     current_item |-> 0,            \* config id of config_list.currentItem()
     name_input |-> "", type_input |-> "openai",
     openai_api_key_input |-> "", openai_model_input |-> "",
     ollama_api_url_input |-> "", ollama_model_input |-> ""]
\* configuration records a direct caller of AIInterface.set_config may pass
DirectConfigs == {CfgA, CfgB, CfgX}

NoClient == "unset"

\* ------------------------------------------------------------ clip rows
\* a row of the clips table as MainWindow unpacks it
ClipRow(type, content, file_path) ==
    [type |-> type, content |-> content, file_path |-> file_path,
     ai_response |-> NoneVal, processing_time |-> NoneVal]

\* on_image_copied lines 326-327:
\* os.path.join(self.clips_dir, f"image_{n}.png"), a path as tokens
FilePath(n) == <<"clips/image_">> \o Dec(n) \o <<".png">>
NoPath == <<>>

InitialClips == <<ClipRow("text", Str(<<"hello">>), NoPath),
                  ClipRow("image", Str(<<>>), FilePath(0))>>
InitialFiles == [p \in {FilePath(0)} |-> <<255, 16, 7>>]

\* ---------------------------------------------------------------- state
VARIABLES
    current_config,    \* AIInterface.current_config
    openai_client,     \* AIInterface.openai_client: the api_key it was built with
    main_pc,           \* position of the UI thread ("idle" between handlers)
    model_selector,    \* MainWindow.model_selector item data, in order
    selector_index,    \* model_selector.currentIndex() + 1 (0: no item)
    clips,             \* clips table, indexed by clip id
    files,             \* clips directory: path -> image data
    selected,          \* clip id selected in history_list (0: none)
    workers,           \* AIWorker instances and the position of each run()
    events,            \* signals queued to the UI thread, oldest first
    now,               \* what time.time() returns
    configs,           \* configs table, in rowid order
    config_seq,        \* sqlite_sequence of configs (last AUTOINCREMENT id)
    clip_seq,          \* sqlite_sequence of clips
    dialog             \* ConfigDialog: current_config_id, list and form fields

vars == <<current_config, openai_client, main_pc, model_selector, selector_index,
          clips, files, selected, workers, events,
          now, configs, config_seq, clip_seq, dialog>>

ai_vars == <<current_config, openai_client>>
ui_vars == <<model_selector, selector_index, clips, files, selected>>
db_vars == <<configs, config_seq, clip_seq>>
ext_vars == <<now, configs, config_seq, clip_seq, dialog>>

\* ------------------------------------------------- dispatcher, pure parts
Res(kind, value) == [kind |-> kind, value |-> value]
NoRes == Res("none", NoneVal)

\* outcome of a call: a returned value or a raised exception
Returned(v) == [raised |-> FALSE, value |-> v, exc |-> Exc("", <<>>)]
Raised(e) == [raised |-> TRUE, value |-> NoneVal, exc |-> e]

\* mutant: the check of line 24 never fires
ConfigAbsent_Never(cfg) == FALSE

\* `if not self.current_config`
ConfigAbsent(cfg) == cfg = NoConfig

Return25 == Res("no_config", Str(<<"No AI model selected">>))
Return33 == Res("unsupported", Str(<<"Unsupported AI model type">>))

\* mutant: every kind that is not openai takes the ollama branch
IsOllamaKind_AnyOther(kind) == kind # "openai"

\* `if type == "openai"` ... `elif type == "ollama"` ... `else`
IsOpenAIKind(kind) == kind = "openai"
IsOllamaKind(kind) == kind = "ollama"

\* mutant: the handler of line 37 lets the exception through
Catch37_Reraise(e) == Res("escaped", StrOfExc(e))

\* `except Exception as e: return str(e)` around the adapter call
Catch37(e) == Res("caught", StrOfExc(e))

\* `response = await adapter(...); return response` inside the try
DispatchResult(outcome) ==
    IF outcome.raised THEN Catch37(outcome.exc)
    ELSE Res("answer", outcome.value)

\* send_to_openai: the try/except around chat.completions.create
OpenAIErrorText(e) == <<"Error communicating with OpenAI: ">> \o e.msg
OpenAIResult(call) ==
    IF call.raised THEN Returned(Str(OpenAIErrorText(call.exc)))
    ELSE Returned(call.value)

\* send_to_ollama: `other_settings.get('api_url', default) + '/api/generate'`
DefaultOllamaUrl == "http://localhost:11434"
OllamaUrl(other_settings) ==
    IF other_settings.py # "dict"
    THEN Raised(Exc("AttributeError", <<"'str' object has no attribute 'get'">>))
    ELSE Returned(Str((IF DictHas(other_settings.d, "api_url")
                       THEN DictGet(other_settings.d, "api_url").s
                       ELSE <<DefaultOllamaUrl>>) \o <<"/api/generate">>))

\* mutant: the message leaves the status out
OllamaErrorText_NoStatus(status) == <<"Ollama API error">>

\* send_to_ollama: the message of the exception raised for a non-200 status
OllamaErrorText(status) == <<"Ollama API error: ">> \o Dec(status)

\* mutant: a body without the field gives an empty answer (result.get)
OllamaParse_Lenient(body) ==
    LET result == json_loads(body) IN
    IF result.py = "dict" /\ DictHas(result.d, "response")
    THEN Returned(DictGet(result.d, "response"))
    ELSE Returned(Str(<<>>))

\* send_to_ollama: `result = json.loads(response_text); return result['response']`
OllamaParse(body) ==
    LET result == json_loads(body) IN
    IF result.py = "JSONDecodeError"
    THEN Raised(Exc("JSONDecodeError", <<"Expecting value">>))
    ELSE IF result.py # "dict"
    THEN Raised(Exc("TypeError", <<"indices must be integers">>))
    ELSE IF ~DictHas(result.d, "response")
    THEN Raised(Exc("KeyError", <<"'response'">>))
    ELSE Returned(DictGet(result.d, "response"))

\* send_to_ollama: handling of the HTTP response (status, body text)
OllamaResult(status, body) ==
    IF status = 200 THEN OllamaParse(body)
    ELSE Raised(Exc("Exception", OllamaErrorText(status)))

\* AIWorker.run: the signals emitted for a dispatcher result, in order.
\* finished is pyqtSignal(str, float): emitting a non-str raises TypeError,
\* which the except clause turns into the error signal.
Sig(name, value) == [sig |-> name, value |-> value]
EmitTypeError == Str(<<"finished.emit(): argument 1 has unexpected type">>)
\* mutant: the TypeError of emit is swallowed, no signal goes out
RunSignals_DropsTypeError(res) ==
    IF res.kind = "escaped" THEN <<Sig("error", res.value)>>
    ELSE IF IsStr(res.value) THEN <<Sig("finished", res.value)>>
    ELSE <<>>
RunSignals(res) ==
    IF res.kind = "escaped" THEN <<Sig("error", res.value)>>
    ELSE IF IsStr(res.value) THEN <<Sig("finished", res.value)>>
    ELSE <<Sig("error", EmitTypeError)>>

\* mutant: the two instructions are swapped
PromptFor_Swapped(clip_type) == IF clip_type = "image" THEN PROMPT_TEXT ELSE PROMPT_IMAGE

\* MainWindow.send_to_ai: instruction and content for a clip
PromptFor(clip_type) == IF clip_type = "image" THEN PROMPT_IMAGE ELSE PROMPT_TEXT
ContentFor(clip, fs) ==
    IF clip.type = "image" THEN Str(b64encode(PalettePng(fs[clip.file_path])))
    ELSE clip.content
PayloadOf(clip_type) == IF clip_type = "image" THEN "image" ELSE "text"

\* ------------------------------------------------ requests of the adapters
PyFalse == [py |-> "bool", s |-> <<"False">>]
PyList(items) == [py |-> "list", s |-> <<>>, items |-> items]

\* f"{prompt}" and f"{prompt}\n\n{content}"
PromptOnly(prompt) == Str(<<prompt>>)
PromptAndContent(prompt, content) == Str(<<prompt, "\n\n">> \o content.s)

\* mutant: the image branch of lines 89-91 is missing
OllamaPayload_NoImageBranch(model, content, prompt) ==
    <<[k |-> "model", v |-> Str(<<model>>)],
      [k |-> "stream", v |-> PyFalse],
      [k |-> "prompt", v |-> PromptAndContent(prompt, content)]>>

\* send_to_ollama lines 83-91: the dict posted as JSON
OllamaPayload(model, content, prompt) ==
    LET payload == <<[k |-> "model", v |-> Str(<<model>>)],
                     [k |-> "stream", v |-> PyFalse],
                     [k |-> "prompt", v |-> PromptAndContent(prompt, content)]>>
    IN IF prompt = PROMPT_IMAGE
       THEN DictPut(DictPut(payload, "prompt", PromptOnly(prompt)),
                    "images", PyList(<<content>>))
       ELSE payload

\* send_to_openai lines 43-62: the message list
PyDict(d) == [py |-> "dict", s |-> <<>>, d |-> d]
Message(role, content) ==
    PyDict(<<[k |-> "role", v |-> Str(<<role>>)], [k |-> "content", v |-> content]>>)
SystemMessage == Message("system", Str(<<"You are a helpful assistant.">>))
ImageDataUrl(content) == Str(<<"data:image/jpeg;base64,">> \o content.s)
ImageItem(content) ==
    PyDict(<<[k |-> "type", v |-> Str(<<"image_url">>)],
             [k |-> "image_url",
              v |-> PyDict(<<[k |-> "url", v |-> ImageDataUrl(content)]>>)]>>)

\* mutant: the image is appended to the text of the user message
OpenAIMessages_Inline(content, prompt) ==
    <<SystemMessage, Message("user", PromptAndContent(prompt, content))>>

OpenAIMessages(content, prompt) ==
    LET user_message == IF prompt = PROMPT_IMAGE
                        THEN Message("user", PromptOnly(prompt))
                        ELSE Message("user", PromptAndContent(prompt, content))
        messages == <<SystemMessage, user_message>>
    IN IF prompt = PROMPT_IMAGE
       THEN Append(messages, Message("user", PyList(<<ImageItem(content)>>)))
       ELSE messages

\* the keyword arguments of chat.completions.create (lines 65-68)
OpenAIRequest(model, messages) ==
    <<[k |-> "model", v |-> Str(<<model>>)],
      [k |-> "messages", v |-> PyList(messages)]>>

\* -------------------------------------------------------------- workers
IdleWorker ==
    [pc |-> "idle", origin |-> "none",
     content |-> Str(<<>>), prompt |-> PROMPT_TEXT,   \* AIWorker fields
     clip_id |-> 0,                \* clip_id captured by the finished lambda
     payload |-> "text",           \* what content holds: "text" or "image"
     sendCfg |-> NoConfig,         \* configuration active when it was created
     seen |-> {},                  \* ids of the configurations run() has read
     kinds |-> <<>>,               \* the 'type' values lines 28 and 30 have read
     adapter |-> "none",           \* adapter coroutine entered
     client |-> NoClient, model |-> "", url |-> Str(<<>>),
     net |-> 0,                    \* network calls made
     sent |-> <<>>,                \* body of the request handed to the service
     status |-> 0, body |-> <<>>,  \* HTTP answer of the local server
     failed |-> FALSE,             \* the dispatch ended in an error
     res |-> NoRes,                \* what send_to_ai handed back to run()
     start_time |-> 0,             \* run(): time.time() before the dispatch
     io_start |-> 0,               \* when the adapter turned to the service
     io_time |-> 0,                \* time the adapter spent waiting for it
     processing_time |-> 0,        \* run(): end_time - start_time
     finishedEmits |-> 0, errorEmits |-> 0,
     cbFinished |-> 0, cbError |-> 0,       \* slot invocations
     cbClip |-> 0, cbValue |-> NoneVal,     \* arguments of the slot invoked
     cbTime |-> 0]

NewWorker(origin, content, prompt, clip_id, payload) ==
    [IdleWorker EXCEPT !.pc = "queued", !.origin = origin, !.content = content,
                       !.prompt = prompt, !.clip_id = clip_id,
                       !.payload = payload, !.sendCfg = current_config]

\* once run() has emitted, the locals of send_to_ai and of the adapter are gone;
\* what is kept is what the queued signals and their slots still refer to
AfterRun(me) ==
    [IdleWorker EXCEPT !.pc = "done", !.origin = me.origin, !.content = me.content,
                       !.clip_id = me.clip_id, !.failed = me.failed, !.res = me.res,
                       !.io_time = me.io_time]

FreeWorker(w) ==
    /\ workers[w].pc = "idle"
    /\ \A v \in Workers : v < w => workers[v].pc # "idle"

Finish(w, fields) == workers' = [workers EXCEPT ![w] = fields]

\* run() line 40, `start_time = time.time()`, then send_to_ai line 24:
\* `if not self.current_config: return ...`
Step24(w) ==
    /\ workers[w].pc = "queued"
    /\ LET me == [workers[w] EXCEPT !.seen = @ \cup {current_config.id},
                                    !.start_time = now] IN
       IF ConfigAbsent(current_config)
       THEN Finish(w, [me EXCEPT !.pc = "returned", !.res = Return25,
                                 !.failed = TRUE])
       ELSE Finish(w, [me EXCEPT !.pc = "l28"])
    /\ UNCHANGED <<ai_vars, main_pc, ui_vars, events, ext_vars>>

\* line 28: `if self.current_config['type'] == "openai"`
Step28(w) ==
    /\ workers[w].pc = "l28"
    /\ LET me == [workers[w] EXCEPT !.seen = @ \cup {current_config.id},
                                    !.kinds = Append(@, current_config.type)] IN
       IF IsOpenAIKind(current_config.type)
       THEN Finish(w, [me EXCEPT !.pc = "l65", !.adapter = "openai"])
       ELSE Finish(w, [me EXCEPT !.pc = "l30"])
    /\ UNCHANGED <<ai_vars, main_pc, ui_vars, events, ext_vars>>

\* line 30: `elif self.current_config['type'] == "ollama"` / `else: return`
Step30(w) ==
    /\ workers[w].pc = "l30"
    /\ LET me == [workers[w] EXCEPT !.seen = @ \cup {current_config.id},
                                    !.kinds = Append(@, current_config.type)] IN
       IF IsOllamaKind(current_config.type)
       THEN Finish(w, [me EXCEPT !.pc = "l78", !.adapter = "ollama"])
       ELSE Finish(w, [me EXCEPT !.pc = "returned", !.res = Return33,
                                 !.failed = TRUE])
    /\ UNCHANGED <<ai_vars, main_pc, ui_vars, events, ext_vars>>

\* send_to_openai line 65: `self.openai_client` is read inside the try
Step65(w) ==
    /\ workers[w].pc = "l65"
    /\ IF openai_client = NoClient
       THEN LET e == Exc("AttributeError", <<"no attribute 'openai_client'">>) IN
            Finish(w, [workers[w] EXCEPT
                         !.pc = "returned", !.failed = TRUE,
                         !.res = DispatchResult(OpenAIResult(Raised(e)))])
       ELSE Finish(w, [workers[w] EXCEPT !.pc = "l66", !.client = openai_client,
                                         !.io_start = now])
    /\ UNCHANGED <<ai_vars, main_pc, ui_vars, events, ext_vars>>

\* send_to_openai lines 66-73: model read, the API call and its outcome `call`
Step66(w, call) ==
    /\ workers[w].pc = "l66"
    /\ Finish(w, [workers[w] EXCEPT
                    !.pc = "returned",
                    !.seen = @ \cup {current_config.id},
                    !.model = current_config.model,
                    !.sent = OpenAIRequest(current_config.model,
                                           OpenAIMessages(workers[w].content,
                                                          workers[w].prompt)),
                    !.net = @ + 1,
                    !.io_time = now - workers[w].io_start,
                    !.failed = call.raised,
                    !.res = DispatchResult(OpenAIResult(call))])
    /\ UNCHANGED <<ai_vars, main_pc, ui_vars, events, ext_vars>>

\* send_to_ollama lines 78-80: other_settings read, url built
Step78(w) ==
    /\ workers[w].pc = "l78"
    /\ LET me == [workers[w] EXCEPT !.seen = @ \cup {current_config.id}]
           u == OllamaUrl(current_config.other_settings) IN
       IF u.raised
       THEN Finish(w, [me EXCEPT !.pc = "returned", !.failed = TRUE,
                                 !.res = DispatchResult(u)])
       ELSE Finish(w, [me EXCEPT !.pc = "l84", !.url = u.value, !.io_start = now])
    /\ UNCHANGED <<ai_vars, main_pc, ui_vars, events, ext_vars>>

\* what the POST gives: a connection error, or a status and a body
HttpAnswer(status, body) == [connected |-> TRUE, status |-> status, body |-> body]
HttpNoConnection == [connected |-> FALSE, status |-> 0, body |-> <<>>]

\* send_to_ollama lines 83-112: model read, the POST and its outcome `http`
Step84(w, http) ==
    /\ workers[w].pc = "l84"
    /\ LET me == [workers[w] EXCEPT !.seen = @ \cup {current_config.id},
                                    !.model = current_config.model,
                                    !.sent = OllamaPayload(current_config.model,
                                                           workers[w].content, workers[w].prompt),
                                    !.net = @ + 1,
                                    !.io_time = now - workers[w].io_start,
                                    !.status = http.status,
                                    !.body = http.body]
           out == IF http.connected THEN OllamaResult(http.status, http.body)
                  ELSE Raised(Exc("ClientConnectorError", <<"Cannot connect to host">>))
       IN Finish(w, [me EXCEPT !.pc = "returned", !.failed = out.raised,
                               !.res = DispatchResult(out)])
    /\ UNCHANGED <<ai_vars, main_pc, ui_vars, events, ext_vars>>

RECURSIVE CountSig(_, _)
CountSig(sigs, name) ==
    IF sigs = <<>> THEN 0
    ELSE (IF Head(sigs).sig = name THEN 1 ELSE 0) + CountSig(Tail(sigs), name)

\* mutant: the start is subtracted the wrong way round
ProcessingTime_Swapped(start_time, end_time) == start_time - end_time

\* run() lines 42-43: `processing_time = end_time - start_time`
ProcessingTime(start_time, end_time) == end_time - start_time

\* AIWorker.run lines 42-48: end_time is taken and the signals go to the UI
\* thread (queued connections); a worker made by a direct caller has no slot
\* connected
Emit(w) ==
    /\ workers[w].pc = "returned"
    /\ LET sigs == RunSignals(workers[w].res)
           processing_time == ProcessingTime(workers[w].start_time, now) IN
       /\ Finish(w, [AfterRun(workers[w]) EXCEPT
                       !.processing_time = processing_time,
                       !.finishedEmits = CountSig(sigs, "finished"),
                       !.errorEmits = CountSig(sigs, "error")])
       /\ events' = IF workers[w].origin = "ui"
                    THEN events \o [i \in 1..Len(sigs) |->
                                      [sig |-> sigs[i].sig, w |-> w,
                                       value |-> sigs[i].value,
                                       time |-> processing_time]]
                    ELSE events
    /\ UNCHANGED <<ai_vars, main_pc, ui_vars, ext_vars>>

\* ------------------------------------------------------------ UI thread
\* AIInterface.set_config line 18; lines 19-21 follow for an openai record
SetConfigStart(config) ==
    /\ current_config' = config
    /\ main_pc' = IF config.type = "openai" THEN "set_config_l21" ELSE "idle"
    /\ UNCHANGED openai_client

\* AIInterface.set_config lines 19-21: `self.openai_client = OpenAI(api_key=...)`
SetConfigClient ==
    /\ main_pc = "set_config_l21"
    /\ openai_client' = current_config.api_key
    /\ main_pc' = "idle"
    /\ UNCHANGED <<current_config, ui_vars, workers, events, ext_vars>>

\* the user picks another entry of model_selector: change_ai_model(index)
ChangeAiModel(i) ==
    /\ main_pc = "idle"
    /\ i \in 1..Len(model_selector)
    /\ i # selector_index
    /\ selector_index' = i
    /\ SetConfigStart(model_selector[i])
    /\ UNCHANGED <<model_selector, clips, files, selected, workers, events, ext_vars>>

\* the user clicks an item of history_list: display_clip
DisplayClip(c) ==
    /\ main_pc = "idle"
    /\ c \in DOMAIN clips
    /\ c # selected
    /\ selected' = c
    /\ UNCHANGED <<ai_vars, main_pc, model_selector, selector_index, clips,
                   files, workers, events, ext_vars>>

\* MainWindow.send_to_ai (the Send button); the two warnings leave the state as is
SendToAi ==
    /\ main_pc = "idle"
    /\ selected # 0
    /\ ~ConfigAbsent(current_config)
    /\ \E w \in Workers :
         /\ FreeWorker(w)
         /\ LET clip == clips[selected] IN
            workers' = [workers EXCEPT ![w] =
                NewWorker("ui", ContentFor(clip, files), PromptFor(clip.type),
                          selected, PayloadOf(clip.type))]
    /\ UNCHANGED <<ai_vars, main_pc, ui_vars, events, ext_vars>>

\* DatabaseManager.update_clip_response, as display_ai_response calls it
update_clip_response(cl, clip_id, response) ==
    [c \in DOMAIN cl |-> IF c = clip_id THEN [cl[c] EXCEPT !.ai_response = response]
                         ELSE cl[c]]

\* mutant: the slot looks the selection up when it runs
ClipBoundTo_Selected(w) == selected

\* the clip_id the finished lambda of worker w closed over
ClipBoundTo(w) == workers[w].clip_id

\* slot of finished: lambda -> display_ai_response(response, time, clip_id)
DisplayAiResponse ==
    /\ main_pc = "idle"
    /\ events # <<>>
    /\ Head(events).sig = "finished"
    /\ LET e == Head(events)
           clip_id == ClipBoundTo(e.w) IN
       /\ clips' = update_clip_response(clips, clip_id, e.value)
       /\ workers' = [workers EXCEPT ![e.w].cbFinished = @ + 1,
                                     ![e.w].cbClip = clip_id,
                                     ![e.w].cbValue = e.value,
                                     ![e.w].cbTime = e.time]
    /\ events' = Tail(events)
    /\ UNCHANGED <<ai_vars, main_pc, model_selector, selector_index, files, selected,
                   ext_vars>>

\* slot of error: display_error(error)
DisplayError ==
    /\ main_pc = "idle"
    /\ events # <<>>
    /\ Head(events).sig = "error"
    /\ LET e == Head(events) IN
       workers' = [workers EXCEPT ![e.w].cbError = @ + 1,
                                  ![e.w].cbValue = e.value]
    /\ events' = Tail(events)
    /\ UNCHANGED <<ai_vars, main_pc, ui_vars, ext_vars>>

\* ------------------------------------------------- direct use of the API
\* a caller other than MainWindow: AIInterface.set_config(config)
DirectSetConfig(config) ==
    /\ main_pc = "idle"
    /\ config # current_config
    /\ SetConfigStart(config)
    /\ UNCHANGED <<ui_vars, workers, events, ext_vars>>

\* a caller other than MainWindow: AIWorker(ai_interface, content, prompt)
\* started with any content and either instruction
DirectContents ==
    { [payload |-> "text", content |-> Str(<<"hello">>)],
      [payload |-> "image", content |-> Str(b64encode(PalettePng(<<1, 2>>)))] }
DirectDispatch(req, prompt) ==
    /\ \E w \in Workers :
         /\ FreeWorker(w)
         /\ workers' = [workers EXCEPT ![w] =
                NewWorker("direct", req.content, prompt, 0, req.payload)]
    /\ UNCHANGED <<ai_vars, main_pc, ui_vars, events, ext_vars>>

\* ------------------------------------------------- the remote services
AnswerText(w) == Str(<<"answer to request ", DigitChars[w + 1]>>)
GoodBody(w) == <<LBRACE, JSTR("response"), COLON, JSTR(AnswerText(w).s[1]), RBRACE>>

\* answers of the services while the application runs
OpenAICalls(w) ==
    { Returned(AnswerText(w)), Returned(NoneVal),
      Raised(Exc("APIConnectionError", <<"Connection error.">>)) }
HttpAnswers(w) ==
    { HttpAnswer(200, GoodBody(w)), HttpAnswer(500, <<JUNK("<html>")>>) }

\* ---------------------------------------------------------------- specs
\* the state after MainWindow.__init__: load_history and load_configs ran,
\* and filling model_selector selected its first entry (change_ai_model(0))
Init ==
    /\ \E rows \in InitialConfigTables :
         LET cfgs == LoadedItems(rows) IN
         /\ configs = rows
         /\ config_seq = Len(rows)
         /\ model_selector = cfgs
         /\ selector_index = IF cfgs = <<>> THEN 0 ELSE 1
         /\ current_config = IF cfgs = <<>> THEN NoConfig ELSE cfgs[1]
         /\ openai_client = IF cfgs # <<>> /\ cfgs[1].type = "openai"
                            THEN cfgs[1].api_key ELSE NoClient
    /\ main_pc = "idle"
    /\ clips = InitialClips
    /\ clip_seq = Len(InitialClips)
    /\ files = InitialFiles
    /\ selected = 0
    /\ workers = [w \in Workers |-> IdleWorker]
    /\ events = <<>>
    /\ now = 0
    /\ dialog = InitialDialog

Next ==
    \/ \E i \in 1..2 : ChangeAiModel(i)
    \/ SetConfigClient
    \/ \E c \in DOMAIN InitialClips : DisplayClip(c)
    \/ SendToAi
    \/ DisplayAiResponse
    \/ DisplayError
    \/ \E w \in Workers : Step24(w)
    \/ \E w \in Workers : Step28(w)
    \/ \E w \in Workers : Step30(w)
    \/ \E w \in Workers : Step65(w)
    \/ \E w \in Workers : \E call \in OpenAICalls(w) : Step66(w, call)
    \/ \E w \in Workers : Step78(w)
    \/ \E w \in Workers : \E http \in HttpAnswers(w) : Step84(w, http)
    \/ \E w \in Workers : Emit(w)

Spec == Init /\ [][Next]_vars

\* one invocation of the dispatcher, made directly or by the Send button,
\* while the configuration may be changed under it (the slots of the signals
\* are left out: nothing here reads what they write)
NoneStarted == \A w \in Workers : workers[w].pc = "idle"

DirectOpenAICalls(w) ==
    { Returned(AnswerText(w)), Raised(Exc("APIConnectionError", <<"Connection error.">>)) }
DirectHttpAnswers(w) == { HttpAnswer(200, GoodBody(w)), HttpNoConnection }

DNext ==
    \/ \E config \in DirectConfigs : DirectSetConfig(config)
    \/ SetConfigClient
    \/ \E req \in DirectContents, prompt \in {PROMPT_IMAGE, PROMPT_TEXT} :
         NoneStarted /\ DirectDispatch(req, prompt)
    \/ \E c \in DOMAIN InitialClips : DisplayClip(c)
    \/ NoneStarted /\ SendToAi
    \/ \E w \in Workers : Step24(w)
    \/ \E w \in Workers : Step28(w)
    \/ \E w \in Workers : Step30(w)
    \/ \E w \in Workers : Step65(w)
    \/ \E w \in Workers : \E call \in DirectOpenAICalls(w) : Step66(w, call)
    \/ \E w \in Workers : Step78(w)
    \/ \E w \in Workers : \E http \in DirectHttpAnswers(w) : Step84(w, http)
    \/ \E w \in Workers : Emit(w)

DSpec == Init /\ [][DNext]_vars

\* the local-server adapter under every answer of the server: one invocation
\* with a local-server configuration, the answer drawn from OllamaAnswers
OllamaStatuses == {200, 201, 404, 500}
OllamaBodies ==
    { GoodBody(1),
      <<LBRACE, JSTR("response"), COLON, JSTR("first"), COMMA,
        JSTR("done"), COLON, JSTR("true"), RBRACE>>,
      <<LBRACE, JSTR("done"), COLON, JSTR("true"), COMMA,
        JSTR("response"), COLON, JSTR("last"), RBRACE>>,
      <<LBRACE, JSTR("error"), COLON, JSTR("model not found"), RBRACE>>,
      <<LBRACE, JSTR("response"), COLON, JNULL, RBRACE>>,
      <<LBRACE, RBRACE>>,
      <<LBRACK, RBRACK>>,
      <<JSTR("response")>>,
      <<JNULL>>,
      <<JUNK("<html>")>>,
      <<LBRACE, JSTR("response"), COLON, JSTR("cut")>>,
      <<LBRACE, JSTR("response"), COLON, JSTR("x"), RBRACE, JUNK("trailing")>>,
      <<>> }
OllamaAnswers ==
    {HttpNoConnection}
    \cup {HttpAnswer(st, b) : st \in OllamaStatuses, b \in OllamaBodies}

OInit ==
    /\ \E row \in OllamaRows :
         /\ configs = <<row>>
         /\ config_seq = row.id
         /\ current_config = ConfigOfRow(row)
    /\ openai_client = NoClient
    /\ main_pc = "idle"
    /\ model_selector = LoadedItems(configs)
    /\ selector_index = 1
    /\ clips = InitialClips
    /\ clip_seq = Len(InitialClips)
    /\ files = InitialFiles
    /\ selected = 0
    /\ now = 0
    /\ dialog = InitialDialog
    /\ \E req \in DirectContents, prompt \in {PROMPT_IMAGE, PROMPT_TEXT} :
         workers = [w \in Workers |->
                      IF w = 1
                      THEN [IdleWorker EXCEPT !.pc = "queued", !.origin = "direct",
                                              !.content = req.content,
                                              !.prompt = prompt,
                                              !.payload = req.payload,
                                              !.sendCfg = current_config]
                      ELSE IdleWorker]
    /\ events = <<>>

ONext ==
    \/ \E w \in Workers : Step24(w)
    \/ \E w \in Workers : Step28(w)
    \/ \E w \in Workers : Step30(w)
    \/ \E w \in Workers : Step78(w)
    \/ \E w \in Workers : \E http \in OllamaAnswers : Step84(w, http)
    \/ \E w \in Workers : Emit(w)

OSpec == OInit /\ [][ONext]_vars

\* ------------------------------------------------------- ConfigDialog
\* MainWindow.load_configs: model_selector is cleared and refilled; adding the
\* first item makes it current, so currentIndexChanged(0) runs
\* change_ai_model(0) -> set_config; clearing (index -1) sets nothing
LoadConfigs(rows) ==
    /\ model_selector' = LoadedItems(rows)
    /\ IF rows = <<>>
       THEN /\ selector_index' = 0
            /\ UNCHANGED <<current_config, openai_client, main_pc>>
       ELSE /\ selector_index' = 1
            /\ SetConfigStart(LoadedItems(rows)[1])

\* DatabaseManager.get_config: the row with this id (there is one)
HasRow(rows, id) == \E i \in 1..Len(rows) : rows[i].id = id
RowById(rows, id) == rows[CHOOSE i \in 1..Len(rows) : rows[i].id = id]

\* load_config lines 110-120: the API URL shown for a stored other_settings
ApiUrlShown(col) ==
    IF col.null \/ col.text = <<>> THEN ""
    ELSE LET r == json_loads(col.text) IN
         IF r.py = "dict" /\ DictHas(r.d, "api_url")
         THEN TokOf(DictGet(r.d, "api_url")) ELSE ""

\* ConfigDialog.load_config(item): the form filled from the row of the item
LoadedForm(dlg, rows, id) ==
    LET d1 == [dlg EXCEPT !.current_config_id = id] IN
    IF ~HasRow(rows, id) THEN d1
    ELSE LET row == RowById(rows, id)
             d2 == [d1 EXCEPT !.name_input = row.name,
                              !.type_input = IF row.type \in {"openai", "ollama"}
                                             THEN row.type ELSE @]
             d3 == IF row.type = "openai"
                   THEN [d2 EXCEPT !.openai_api_key_input = row.api_key,
                                   !.openai_model_input = row.model]
                   ELSE IF row.type = "ollama"
                   THEN [d2 EXCEPT !.ollama_model_input = row.model]
                   ELSE d2
         IN [d3 EXCEPT !.ollama_api_url_input = ApiUrlShown(row.other_settings)]

\* ConfigDialog.add_new_config: the form cleared
ClearedForm(dlg) ==
    [dlg EXCEPT !.current_config_id = 0, !.name_input = "",
                !.openai_api_key_input = "", !.openai_model_input = "",
                !.ollama_api_url_input = "", !.ollama_model_input = "",
                !.type_input = "openai"]

\* the user clicks an item of config_list: load_config(item)
ClickConfig(id) ==
    /\ main_pc = "idle"
    /\ HasRow(configs, id)
    /\ dialog' = LoadedForm([dialog EXCEPT !.current_item = id], configs, id)
    /\ dialog' # dialog
    /\ UNCHANGED <<ai_vars, main_pc, ui_vars, workers, events, now, db_vars>>

\* the Add New button
AddNewConfig ==
    /\ main_pc = "idle"
    /\ dialog' = ClearedForm(dialog)
    /\ dialog' # dialog
    /\ UNCHANGED <<ai_vars, main_pc, ui_vars, workers, events, now, db_vars>>

\* the user edits the form
TypeName(name) ==
    /\ main_pc = "idle"
    /\ name # dialog.name_input
    /\ dialog' = [dialog EXCEPT !.name_input = name]
    /\ UNCHANGED <<ai_vars, main_pc, ui_vars, workers, events, now, db_vars>>

PickType(config_type) ==
    /\ main_pc = "idle"
    /\ config_type # dialog.type_input
    /\ dialog' = [dialog EXCEPT !.type_input = config_type]
    /\ UNCHANGED <<ai_vars, main_pc, ui_vars, workers, events, now, db_vars>>

TypeApiUrl(api_url) ==
    /\ main_pc = "idle"
    /\ api_url # dialog.ollama_api_url_input
    /\ dialog' = [dialog EXCEPT !.ollama_api_url_input = api_url]
    /\ UNCHANGED <<ai_vars, main_pc, ui_vars, workers, events, now, db_vars>>

\* save_config lines 153-162: the values read from the form
FormRow(dlg, id) ==
    IF dlg.type_input = "openai"
    THEN ConfigRow(id, dlg.name_input, "openai", dlg.openai_api_key_input,
                   dlg.openai_model_input, OtherSettingsFor("openai", ""))
    ELSE ConfigRow(id, dlg.name_input, "ollama", "", dlg.ollama_model_input,
                   OtherSettingsFor("ollama", dlg.ollama_api_url_input))

\* DatabaseManager.update_config: UPDATE configs SET ... WHERE id = ?
update_config(rows, row) ==
    [i \in 1..Len(rows) |-> IF rows[i].id = row.id THEN row ELSE rows[i]]

\* DatabaseManager.delete_config: DELETE FROM configs WHERE id = ?
RECURSIVE delete_config(_, _)
delete_config(rows, id) ==
    IF rows = <<>> THEN <<>>
    ELSE IF Head(rows).id = id THEN delete_config(Tail(rows), id)
    ELSE <<Head(rows)>> \o delete_config(Tail(rows), id)

\* save_config line 170: `any(config[1] == name for config in existing_configs)`
NameTaken(rows, name) == \E i \in 1..Len(rows) : rows[i].name = name

\* config_list.findItems(name, MatchExactly)[0]: the first item of that name
FirstNamed(rows, name) ==
    rows[CHOOSE i \in 1..Len(rows) :
           /\ rows[i].name = name
           /\ \A j \in 1..(i - 1) : rows[j].name # name].id

\* the Save button: save_config. The two warnings (empty name, duplicate
\* name on add) return with nothing changed.
SaveConfig ==
    /\ main_pc = "idle"
    /\ dialog.name_input # ""
    /\ LET id == dialog.current_config_id
           rows == IF id # 0
                   THEN update_config(configs, FormRow(dialog, id))
                   ELSE Append(configs, FormRow(dialog, config_seq + 1))
       IN /\ id = 0 => /\ ~NameTaken(configs, dialog.name_input)
                       /\ config_seq < MaxConfigId
          /\ configs' = rows
          /\ config_seq' = IF id # 0 THEN config_seq ELSE config_seq + 1
          /\ dialog' = IF NameTaken(rows, dialog.name_input)
                       THEN LET item == FirstNamed(rows, dialog.name_input) IN
                            LoadedForm([dialog EXCEPT !.current_item = item],
                                       rows, item)
                       ELSE [dialog EXCEPT !.current_item = 0]
          /\ LoadConfigs(rows)
    /\ UNCHANGED <<clips, files, selected, workers, events, now, clip_seq>>

\* the Delete button, answered Yes: delete_config
DeleteConfig ==
    /\ main_pc = "idle"
    /\ dialog.current_item # 0
    /\ LET rows == delete_config(configs, dialog.current_item) IN
       /\ configs' = rows
       /\ dialog' = ClearedForm([dialog EXCEPT !.current_item = 0])
       /\ LoadConfigs(rows)
    /\ UNCHANGED <<clips, files, selected, workers, events, now, config_seq, clip_seq>>

FormNames == {"cloud", "local"}
FormUrls == {"", "http://ai-box:11434"}

CNext ==
    \/ \E id \in 1..MaxConfigId : ClickConfig(id)
    \/ AddNewConfig
    \/ \E name \in FormNames \cup {""} : TypeName(name)
    \/ \E config_type \in {"openai", "ollama"} : PickType(config_type)
    \/ \E api_url \in FormUrls : TypeApiUrl(api_url)
    \/ SaveConfig
    \/ DeleteConfig
    \/ SetConfigClient

CSpec == Init /\ [][CNext]_vars

\* ------------------------------------------- captures and deletions
\* a row of the clips table as DatabaseManager.create_tables and add_clip
\* make it: id, type, content, file_path, timestamp
AddedClip(type, content, file_path) ==
    [type |-> type, content |-> content, file_path |-> file_path]

\* number of columns of a row (id and timestamp are not kept in the model)
Columns(row) == Cardinality(DOMAIN row) + 2

\* the history as the application of src/ stores it: a text and an image
CapturedClips == <<AddedClip("text", Str(<<"hello">>), NoPath),
                   AddedClip("image", Str(<<>>), FilePath(0))>>

\* images the clipboard may hold
Images == { <<255, 16, 7>>, <<1, 2>> }

\* the current item of history_list moves (keyboard): no handler runs
MoveToItem(c) ==
    /\ main_pc = "idle"
    /\ c \in DOMAIN clips
    /\ c # selected
    /\ selected' = c
    /\ UNCHANGED <<ai_vars, main_pc, model_selector, selector_index, clips,
                   files, workers, events, ext_vars>>

\* MainWindow.on_image_copied(image)
OnImageCopied(image) ==
    /\ main_pc = "idle"
    /\ clip_seq < MaxClipId
    /\ LET file_path == FilePath(Cardinality(DOMAIN files))
           clip_id == clip_seq + 1 IN
       /\ files' = [p \in DOMAIN files \cup {file_path} |->
                      IF p = file_path THEN image ELSE files[p]]
       /\ clips' = [c \in DOMAIN clips \cup {clip_id} |->
                      IF c = clip_id THEN AddedClip("image", Str(<<>>), file_path)
                      ELSE clips[c]]
       /\ clip_seq' = clip_id
    /\ UNCHANGED <<ai_vars, main_pc, model_selector, selector_index, selected,
                   workers, events, now, configs, config_seq, dialog>>

\* history_list shows the newest clip first; when the current item is taken
\* out, the item below it (else the one above) becomes current
ItemAfterTake(ids, taken) ==
    LET below == {c \in ids : c < taken}
        above == {c \in ids : c > taken} IN
    IF below # {} THEN CHOOSE c \in below : \A d \in below : d <= c
    ELSE IF above # {} THEN CHOOSE c \in above : \A d \in above : c <= d
    ELSE 0

\* MainWindow.delete_selected_item (the Delete key): the item and the row go;
\* line 364 unpacks five columns (ValueError for a wider row, the file then
\* stays), lines 365-366 remove the file
DeleteSelectedItem ==
    /\ main_pc = "idle"
    /\ selected \in DOMAIN clips
    /\ LET clip == clips[selected] IN
       /\ clips' = [c \in DOMAIN clips \ {selected} |-> clips[c]]
       /\ selected' = ItemAfterTake(DOMAIN clips, selected)
       /\ files' = IF /\ Columns(clip) = 5
                      /\ clip.file_path # NoPath
                      /\ clip.file_path \in DOMAIN files
                   THEN [p \in DOMAIN files \ {clip.file_path} |-> files[p]]
                   ELSE files
    /\ UNCHANGED <<ai_vars, main_pc, model_selector, selector_index,
                   workers, events, ext_vars>>

HInit ==
    /\ configs = <<>>
    /\ config_seq = 0
    /\ model_selector = <<>>
    /\ selector_index = 0
    /\ current_config = NoConfig
    /\ openai_client = NoClient
    /\ main_pc = "idle"
    /\ clips = CapturedClips
    /\ clip_seq = Len(CapturedClips)
    /\ files = InitialFiles
    /\ selected = 0
    /\ workers = [w \in Workers |-> IdleWorker]
    /\ events = <<>>
    /\ now = 0
    /\ dialog = InitialDialog

HNext ==
    \/ \E c \in 1..MaxClipId : MoveToItem(c)
    \/ \E image \in Images : OnImageCopied(image)
    \/ DeleteSelectedItem

HSpec == HInit /\ [][HNext]_vars

\* one invocation sent by the Send button while time passes: the clock may
\* advance between any two steps of the worker thread and of the UI thread
Tick ==
    /\ now < MaxTime
    /\ now' = now + 1
    /\ UNCHANGED <<ai_vars, main_pc, ui_vars, workers, events,
                   configs, config_seq, clip_seq, dialog>>

TInit ==
    /\ configs = <<RowA, RowB>>
    /\ config_seq = 2
    /\ model_selector = LoadedItems(configs)
    /\ selector_index \in 1..2
    /\ current_config = model_selector[selector_index]
    /\ openai_client = RowA.api_key
    /\ main_pc = "idle"
    /\ clips = InitialClips
    /\ clip_seq = Len(InitialClips)
    /\ files = InitialFiles
    /\ selected \in DOMAIN InitialClips
    /\ workers = [w \in Workers |->
                    IF w = 1
                    THEN NewWorker("ui", ContentFor(clips[selected], files),
                                   PromptFor(clips[selected].type), selected,
                                   PayloadOf(clips[selected].type))
                    ELSE IdleWorker]
    /\ events = <<>>
    /\ now = 0
    /\ dialog = InitialDialog

TNext ==
    \/ Tick
    \/ DisplayAiResponse
    \/ DisplayError
    \/ \E w \in Workers : Step24(w)
    \/ \E w \in Workers : Step28(w)
    \/ \E w \in Workers : Step30(w)
    \/ \E w \in Workers : Step65(w)
    \/ \E w \in Workers : \E call \in OpenAICalls(w) : Step66(w, call)
    \/ \E w \in Workers : Step78(w)
    \/ \E w \in Workers : \E http \in HttpAnswers(w) : Step84(w, http)
    \/ \E w \in Workers : Emit(w)

TSpec == TInit /\ [][TNext]_vars

\* ---------------------------------------------------------------- claims
Pending(w) == \E i \in 1..Len(events) : events[i].w = w
Paired(prompt, payload) == (prompt = PROMPT_IMAGE) <=> (payload = "image")
HasResponseField(body) ==
    LET r == json_loads(body) IN r.py = "dict" /\ DictHas(r.d, "response")

\* C1: every run of AIWorker.run emits exactly one of the signals finished and
\* error, exactly once, and the slot of that signal runs once: never none
\* after the run, never both, whatever send_to_ai handed back.
C1_ExactlyOneCallback ==
    \A w \in Workers :
        LET x == workers[w] IN
        /\ x.pc # "done" => x.finishedEmits + x.errorEmits = 0
        /\ x.pc = "done" => x.finishedEmits + x.errorEmits = 1
        /\ x.cbFinished <= x.finishedEmits
        /\ x.cbError <= x.errorEmits
        /\ (x.pc = "done" /\ x.origin = "ui" /\ ~Pending(w))
               => x.cbFinished + x.cbError = 1

\* a run whose dispatcher handed back a non-str, answered through error
C1_Witness ==
    \E w \in Workers :
        /\ workers[w].pc = "done"
        /\ ~IsStr(workers[w].res.value)
        /\ workers[w].cbError = 1

\* C2: a dispatch that ended in failure is reported through the error signal
\* with its message unchanged, and never through finished.
C2_FailureThroughErrorCallback ==
    \A w \in Workers :
        LET x == workers[w] IN
        (x.pc = "done" /\ x.failed)
            => /\ x.finishedEmits = 0
               /\ x.cbFinished = 0
               /\ x.errorEmits = 1
               /\ (x.cbError = 1 => x.cbValue = x.res.value)

\* C3: every read an invocation makes of the configuration (kind, model,
\* endpoint, client) gives the record that was active when it was sent.
C3_OneConfigPerInvocation ==
    \A w \in Workers :
        LET x == workers[w] IN
        x.pc \notin {"idle", "done"}
            => /\ x.seen \subseteq {x.sendCfg.id}
               /\ (x.client # NoClient => x.client = x.sendCfg.api_key)
               /\ (x.model # "" => x.model = x.sendCfg.model)

\* C4: with several sends in flight, completing in any order, the result of
\* each is handed once to display_ai_response with the clip_id selected when
\* it was sent, for the content of that clip: never with another clip_id.
C4_ResultToOwnClip ==
    /\ \A w \in Workers :
         LET x == workers[w] IN
         /\ x.cbFinished + x.cbError <= 1
         /\ x.cbFinished = 1
              => /\ x.cbClip = x.clip_id
                 /\ x.cbValue = x.res.value
                 /\ x.content = ContentFor(clips[x.cbClip], files)
    /\ \A i \in 1..Len(events) :
         events[i].sig = "finished" => events[i].value = workers[events[i].w].res.value

\* the second send is answered while the first is in flight, for another
\* clip, after the selection moved away from its clip
C4_Witness ==
    /\ workers[2].cbFinished = 1
    /\ workers[1].pc \notin {"idle", "done"}
    /\ workers[1].clip_id # workers[2].clip_id
    /\ selected # workers[2].clip_id

\* C5: a dispatch that finds no configuration returns "No AI model selected"
\* without entering an adapter or making a network call, and the Send button
\* creates no worker while no configuration is active.
C5_AbsentConfigNoCall ==
    \A w \in Workers :
        LET x == workers[w] IN
        /\ NoConfig.id \in x.seen
              => /\ x.pc = "returned"
                 /\ x.res = Return25
                 /\ x.adapter = "none"
                 /\ x.net = 0
        /\ (x.origin = "ui" /\ x.pc # "done") => x.sendCfg # NoConfig

\* a direct dispatch came back with the configuration failure, in a state
\* where a clip is selected and the Send button finds no configuration
C5_Witness ==
    /\ current_config = NoConfig
    /\ selected # 0
    /\ \E w \in Workers : workers[w].pc = "returned" /\ workers[w].res = Return25

\* C6: send_to_ai always hands a value back: no exception raised in an
\* adapter, or while reading the configuration record, escapes it.
C6_NoExceptionEscapes ==
    \A w \in Workers :
        LET x == workers[w] IN
        /\ x.res.kind # "escaped"
        /\ x.pc \in {"returned", "done"}
              => x.res.kind \in {"answer", "caught", "no_config", "unsupported"}
        /\ x.res.kind = "caught" => IsStr(x.res.value)

\* an exception raised in the local-server adapter was caught
C6_Witness ==
    \E w \in Workers :
        /\ workers[w].pc = "returned"
        /\ workers[w].adapter = "ollama"
        /\ workers[w].res.kind = "caught"

\* C7: when the kind the dispatcher reads is neither "openai" nor "ollama",
\* it returns "Unsupported AI model type" and enters no adapter.
C7_UnsupportedKind ==
    \A w \in Workers :
        LET x == workers[w] IN
        (Len(x.kinds) = 2 /\ x.kinds[2] \notin {"openai", "ollama"})
            => /\ x.pc = "returned"
               /\ x.res = Return33
               /\ x.adapter = "none"
               /\ x.net = 0

C7_Witness ==
    \E w \in Workers :
        /\ workers[w].pc = "returned"
        /\ workers[w].sendCfg = CfgX
        /\ workers[w].res = Return33

C9_SuccessIffOkAndField ==
    \A w \in Workers :
        LET x == workers[w] IN
        (x.pc = "returned" /\ x.adapter = "ollama" /\ x.net = 1)
            => IF x.status = 200 /\ HasResponseField(x.body)
               THEN /\ ~x.failed
                    /\ x.res.kind = "answer"
                    /\ x.res.value = DictGet(json_loads(x.body).d, "response")
                    /\ (x.body = GoodBody(1) => x.res.value = Str(<<AnswerText(1).s[1]>>))
               ELSE /\ x.failed
                    /\ x.res.kind = "caught"

\* status 200 with a body that is no JSON object holding `response`
C9_Witness ==
    \E w \in Workers :
        /\ workers[w].pc = "returned"
        /\ workers[w].status = 200
        /\ ~HasResponseField(workers[w].body)
        /\ workers[w].failed

\* C10: a status other than 200 ends the local-server dispatch in a failure
\* whose message contains the status code; the body is not the answer.
C10_Non200Failure ==
    \A w \in Workers :
        LET x == workers[w] IN
        (x.pc = "returned" /\ x.net = 1 /\ x.status \notin {0, 200})
            => /\ x.failed
               /\ x.res.kind = "caught"
               /\ IsStr(x.res.value)
               /\ Contains(x.res.value.s, Dec(x.status))
               /\ (HasResponseField(x.body)
                     => x.res.value # DictGet(json_loads(x.body).d, "response"))

\* status 500 with a body that would have been a good answer
C10_Witness ==
    \E w \in Workers :
        /\ workers[w].pc = "returned"
        /\ workers[w].status = 500
        /\ workers[w].body = GoodBody(1)

DictKeys(d) == [i \in 1..Len(d) |-> d[i].k]

\* C11: the local-server adapter posts exactly {model, stream: False, prompt},
\* plus images for the image instruction: with PROMPT_TEXT the prompt is the
\* instruction, a blank line and the content, and there is no images field;
\* with PROMPT_IMAGE the prompt is the instruction alone and images is the
\* one-element list holding the content (the base64 image).
C11_OllamaPayload ==
    \A w \in Workers :
        LET x == workers[w]
            p == x.sent IN
        (x.pc = "returned" /\ x.adapter = "ollama" /\ x.net = 1)
            => /\ SubSeq(DictKeys(p), 1, 3) = <<"model", "stream", "prompt">>
               /\ DictGet(p, "model") = Str(<<x.sendCfg.model>>)
               /\ DictGet(p, "stream") = PyFalse
               /\ x.prompt = PROMPT_TEXT
                    => /\ Len(p) = 3
                       /\ DictGet(p, "prompt")
                            = Str(<<PROMPT_TEXT, "\n\n">> \o x.content.s)
               /\ x.prompt = PROMPT_IMAGE
                    => /\ DictKeys(p) = <<"model", "stream", "prompt", "images">>
                       /\ DictGet(p, "prompt") = Str(<<PROMPT_IMAGE>>)
                       /\ DictGet(p, "images").items = <<x.content>>

\* an image request was posted
C11_Witness ==
    \E w \in Workers :
        /\ workers[w].pc = "returned"
        /\ workers[w].net = 1
        /\ workers[w].prompt = PROMPT_IMAGE
        /\ workers[w].payload = "image"
        /\ DictHas(workers[w].sent, "images")

MessagesOf(x) == DictGet(x.sent, "messages").items
ContentOfMessage(m) == DictGet(m.d, "content")

\* C12: the hosted adapter sends the fixed system message first; for the image
\* instruction it is followed by a user message holding the instruction alone
\* and a user message holding exactly one image_url item whose data URI ends
\* in the content, which for a request of the Send button is the base64 of the
\* image bytes made from the clip's file; for the text instruction it is
\* followed by one user message, the instruction then the content, and the
\* list holds no image item.
C12_OpenAIMessages ==
    \A w \in Workers :
        LET x == workers[w] IN
        (x.pc = "returned" /\ x.adapter = "openai" /\ x.net = 1)
            => LET ms == MessagesOf(x) IN
               /\ ms[1] = SystemMessage
               /\ DictGet(ms[2].d, "role") = Str(<<"user">>)
               /\ x.prompt = PROMPT_IMAGE
                    => /\ Len(ms) = 3
                       /\ ContentOfMessage(ms[2]) = Str(<<PROMPT_IMAGE>>)
                       /\ DictGet(ms[3].d, "role") = Str(<<"user">>)
                       /\ ContentOfMessage(ms[3]).py = "list"
                       /\ Len(ContentOfMessage(ms[3]).items) = 1
                       /\ LET item == ContentOfMessage(ms[3]).items[1].d IN
                          /\ DictGet(item, "type") = Str(<<"image_url">>)
                          /\ DictGet(DictGet(item, "image_url").d, "url").s
                               = <<"data:image/jpeg;base64,">> \o x.content.s
                          /\ x.origin = "ui"
                               => DictGet(DictGet(item, "image_url").d, "url").s
                                    = <<"data:image/jpeg;base64,">>
                                      \o b64encode(PalettePng(
                                           files[clips[x.clip_id].file_path]))
               /\ x.prompt = PROMPT_TEXT
                    => /\ Len(ms) = 2
                       /\ ContentOfMessage(ms[2])
                            = Str(<<PROMPT_TEXT, "\n\n">> \o x.content.s)
                       /\ x.origin = "ui"
                            => ContentOfMessage(ms[2]).s
                                 = <<PROMPT_TEXT, "\n\n">> \o clips[x.clip_id].content.s

\* the image clip went to the hosted API through the Send button
C12_Witness ==
    \E w \in Workers :
        /\ workers[w].pc = "returned"
        /\ workers[w].adapter = "openai"
        /\ workers[w].net = 1
        /\ workers[w].origin = "ui"
        /\ workers[w].prompt = PROMPT_IMAGE
        /\ Len(MessagesOf(workers[w])) = 3

HasOverride(cfg) ==
    /\ cfg.other_settings.py = "dict"
    /\ DictHas(cfg.other_settings.d, "api_url")
    /\ DictGet(cfg.other_settings.d, "api_url").s # <<>>
EndpointOf(cfg) ==
    IF HasOverride(cfg) THEN DictGet(cfg.other_settings.d, "api_url").s
    ELSE <<DefaultOllamaUrl>>

\* C13: the local-server adapter posts to <override>/api/generate when the
\* configuration holds an endpoint override and to
\* http://localhost:11434/api/generate when it holds none, a configuration
\* saved with the API URL field left blank included.
C13_PostUrl ==
    \A w \in Workers :
        LET x == workers[w] IN
        (x.adapter = "ollama" /\ (x.pc = "l84" \/ (x.pc = "returned" /\ x.net = 1)))
            => x.url = Str(EndpointOf(x.sendCfg) \o <<"/api/generate">>)

\* C14: the elapsed time handed to display_ai_response is end_time -
\* start_time of run(), taken around the whole dispatch: it is never below
\* the time the adapter spent waiting for the service, and never negative
\* (time.time() taken as not running backwards).
C14_ElapsedSpansDispatch ==
    \A w \in Workers :
        LET x == workers[w] IN
        /\ x.pc = "done"
             => /\ x.processing_time >= x.io_time
                /\ x.io_time >= 0
        /\ x.cbFinished = 1
             => /\ x.cbTime = x.processing_time
                /\ x.cbTime >= x.io_time
                /\ x.cbTime >= 0
        /\ \A i \in 1..Len(events) :
             events[i].w = w => events[i].time = x.processing_time

\* an answer was displayed with an elapsed time made of waiting for the
\* service and of time spent outside it
C14_Witness ==
    \E w \in Workers :
        /\ workers[w].cbFinished = 1
        /\ ~workers[w].failed
        /\ workers[w].io_time > 0
        /\ workers[w].cbTime > workers[w].io_time

StoredOrAbsent(cfg) ==
    \/ cfg = NoConfig
    \/ \E i \in 1..Len(configs) : ConfigOfRow(configs[i]) = cfg

\* C15: whenever the UI thread is between handlers, after any saves, updates
\* and deletes of the dialog (each followed by MainWindow.load_configs), the
\* configuration the dispatcher holds is absent or is one stored in the
\* configs table, so that no send dispatches with a deleted configuration.
C15_ActiveConfigStored ==
    main_pc = "idle" => StoredOrAbsent(current_config)

\* C17: no two rows of the configs table have the same name, whatever was
\* added, saved over an existing configuration or deleted.
C17_UniqueNames ==
    \A i, j \in 1..Len(configs) :
        i # j => configs[i].name # configs[j].name

IsImageClip(c) == clips[c].type = "image"

\* C16: after any captures of images and deletions of single clips, no two
\* image clips of the history have the same file path (a capture hands out a
\* path no clip of the history has, so it overwrites no file in use), and the
\* file of every image clip exists.
C16_DistinctImageFiles ==
    /\ \A a, b \in DOMAIN clips :
         (a # b /\ IsImageClip(a) /\ IsImageClip(b))
             => clips[a].file_path # clips[b].file_path
    /\ \A c \in DOMAIN clips :
         IsImageClip(c) => clips[c].file_path \in DOMAIN files

====
